---- MODULE Spec2Model ----
(***************************************************************************)
(* Model of video/scripts/generate_edl.py: build_edl(beats, raw_duration), *)
(* the builder of the Edit Decision List.                                  *)
(*                                                                         *)
(* Time.  The script computes on Python floats, seconds as IEEE 754        *)
(* doubles, and writes every timestamp through round(x, 3).  The model     *)
(* computes on the same doubles, bit for bit: a double is a sign and a     *)
(* magnitude in units of 2^-80, an addition or subtraction is exact and    *)
(* then rounded to 53 significant bits, and round(x, 3) is the whole       *)
(* millisecond nearest to the exact value of the double.  So               *)
(* round(0.0005, 3) is 0.001 and round(0.0005 + 5.0, 3) is 5.0, as in      *)
(* Python.  What round(x, 3) returns is written as a count of              *)
(* milliseconds.                                                           *)
(***************************************************************************)
EXTENDS Integers, Sequences, FiniteSets, TLC

VARIABLES beats, raw_duration, pc, beat_map, segments, transitions,
          timeline_pos, scene_times, i, edl

vars == <<beats, raw_duration, pc, beat_map, segments, transitions,
          timeline_pos, scene_times, i, edl>>

\* ------------------------------------------------------------- floats
\* The script computes on Python floats (IEEE 754 doubles).  A double of
\* the model is a sign and a magnitude.  The magnitude is a whole number of
\* units of 2^-80, written in five limbs of 20 bits, least significant
\* first (the fifth limb is the whole seconds and may be larger): it stands
\* for every double x with |x| < 2^20 that is a multiple of 2^-80, that is
\* 0 and every double of magnitude 2^-28 or more.
B == 1048576

ZeroM == <<0, 0, 0, 0, 0>>

\* x + y of two magnitudes
AddM(x, y) ==
    LET s1 == x[1] + y[1]
        s2 == x[2] + y[2] + (s1 \div B)
        s3 == x[3] + y[3] + (s2 \div B)
        s4 == x[4] + y[4] + (s3 \div B)
        s5 == x[5] + y[5] + (s4 \div B)
    IN <<s1 % B, s2 % B, s3 % B, s4 % B, s5>>

\* x - y of two magnitudes, for x >= y (\div rounds down: a borrow is -1)
SubM(x, y) ==
    LET s1 == x[1] - y[1]
        s2 == x[2] - y[2] + (s1 \div B)
        s3 == x[3] - y[3] + (s2 \div B)
        s4 == x[4] - y[4] + (s3 \div B)
        s5 == x[5] - y[5] + (s4 \div B)
    IN <<s1 % B, s2 % B, s3 % B, s4 % B, s5>>

\* x * c of a magnitude and a number c <= 1000
MulM(x, c) ==
    LET s1 == x[1] * c
        s2 == x[2] * c + (s1 \div B)
        s3 == x[3] * c + (s2 \div B)
        s4 == x[4] * c + (s3 \div B)
        s5 == x[5] * c + (s4 \div B)
    IN <<s1 % B, s2 % B, s3 % B, s4 % B, s5>>

\* the quotient of a magnitude by a number d <= 1000, and the remainder
DivM(x, d) ==
    LET q5 == x[5] \div d
        r5 == x[5] % d
        q4 == (r5 * B + x[4]) \div d
        r4 == (r5 * B + x[4]) % d
        q3 == (r4 * B + x[3]) \div d
        r3 == (r4 * B + x[3]) % d
        q2 == (r3 * B + x[2]) \div d
        r2 == (r3 * B + x[2]) % d
        q1 == (r2 * B + x[1]) \div d
        r1 == (r2 * B + x[1]) % d
    IN [quo |-> <<q1, q2, q3, q4, q5>>, rem |-> r1]

\* -1, 0, 1 as x < y, x = y, x > y
CmpM(x, y) ==
    IF x[5] # y[5] THEN (IF x[5] < y[5] THEN -1 ELSE 1)
    ELSE IF x[4] # y[4] THEN (IF x[4] < y[4] THEN -1 ELSE 1)
    ELSE IF x[3] # y[3] THEN (IF x[3] < y[3] THEN -1 ELSE 1)
    ELSE IF x[2] # y[2] THEN (IF x[2] < y[2] THEN -1 ELSE 1)
    ELSE IF x[1] # y[1] THEN (IF x[1] < y[1] THEN -1 ELSE 1)
    ELSE 0

\* the number of bits of a number below 2^4, 2^8, 2^16, 2^31
Bits4(v) == IF v >= 8 THEN 4 ELSE IF v >= 4 THEN 3 ELSE IF v >= 2 THEN 2 ELSE v

Bits8(v) == IF v >= 16 THEN 4 + Bits4(v \div 16) ELSE Bits4(v)

Bits16(v) == IF v >= 256 THEN 8 + Bits8(v \div 256) ELSE Bits8(v)

Bits(v) == IF v >= 65536 THEN 16 + Bits16(v \div 65536) ELSE Bits16(v)

\* the number of bits of a magnitude
BitLen(x) ==
    IF x[5] # 0 THEN 80 + Bits(x[5])
    ELSE IF x[4] # 0 THEN 60 + Bits(x[4])
    ELSE IF x[3] # 0 THEN 40 + Bits(x[3])
    ELSE IF x[2] # 0 THEN 20 + Bits(x[2])
    ELSE Bits(x[1])

\* limb k of 2^q
Pow2L(q, k) == IF k = (q \div 20) + 1 THEN 2 ^ (q % 20) ELSE 0

\* 2^q as a magnitude
Pow2M(q) == <<Pow2L(q, 1), Pow2L(q, 2), Pow2L(q, 3), Pow2L(q, 4), Pow2L(q, 5)>>

\* limb k of x mod 2^q
LowL(x, q, k) ==
    IF k < (q \div 20) + 1 THEN x[k]
    ELSE IF k = (q \div 20) + 1 THEN x[k] % (2 ^ (q % 20))
    ELSE 0

\* x mod 2^q
LowM(x, q) ==
    <<LowL(x, q, 1), LowL(x, q, 2), LowL(x, q, 3), LowL(x, q, 4), LowL(x, q, 5)>>

\* bit q of x
BitM(x, q) == (x[(q \div 20) + 1] \div (2 ^ (q % 20))) % 2

\* x rounded to 53 significant bits, to nearest, ties to even; sticky says
\* that the exact value lies above x by less than a unit
RoundM(x, sticky) ==
    LET q == BitLen(x) - 53
    IN IF q <= 0 THEN x
       ELSE LET low == LowM(x, q)
                c == CmpM(low, Pow2M(q - 1))
                down == SubM(x, low)
            IN IF c > 0 \/ (c = 0 /\ (sticky \/ BitM(x, q) = 1))
               THEN AddM(down, Pow2M(q))
               ELSE down

\* a double: its sign and its magnitude
Dbl(neg, m) == [neg |-> neg /\ m # ZeroM, m |-> m]

Zero == Dbl(FALSE, ZeroM)

Neg(x) == Dbl(~x.neg, x.m)

\* x + y of two doubles: the exact sum, rounded
FAdd(x, y) ==
    IF x.neg = y.neg THEN Dbl(x.neg, RoundM(AddM(x.m, y.m), FALSE))
    ELSE IF CmpM(x.m, y.m) >= 0 THEN Dbl(x.neg, RoundM(SubM(x.m, y.m), FALSE))
    ELSE Dbl(y.neg, RoundM(SubM(y.m, x.m), FALSE))

\* x - y of two doubles
FSub(x, y) == FAdd(x, Neg(y))

\* x < y, x <= y of two doubles
FLess(x, y) ==
    IF x.neg # y.neg THEN x.neg
    ELSE IF x.neg THEN CmpM(x.m, y.m) > 0
    ELSE CmpM(x.m, y.m) < 0

FLeq(x, y) == ~FLess(y, x)

\* min(a, b): b if b < a, else a
Min(a, b) == IF FLess(b, a) THEN b ELSE a

\* round(x, 3), in whole milliseconds: the whole number nearest to the
\* exact value of 1000 x, ties to even
Round3(x) ==
    LET p == MulM(x.m, 1000)
        k == p[5]
        half == B \div 2
        over == \/ p[4] > half
                \/ p[4] = half /\ (p[3] # 0 \/ p[2] # 0 \/ p[1] # 0)
        tie == p[4] = half /\ p[3] = 0 /\ p[2] = 0 /\ p[1] = 0
        r == IF over \/ (tie /\ k % 2 = 1) THEN k + 1 ELSE k
    IN IF x.neg THEN -r ELSE r

\* ---------------------------------------------------------------- time
\* timestamps are given in decimal, in ticks of 0.0001 s, ten to the
\* millisecond: a timestamp may lie half way between two milliseconds
TicksPerMs == 10

\* the double of k milliseconds, the double nearest to k / 1000: what the
\* literal is read as
FromMs(k) ==
    LET q == DivM(<<0, 0, 0, 0, k>>, 1000)
    IN Dbl(FALSE, RoundM(q.quo, q.rem # 0))

\* the double a timestamp of p ticks is read as: the nearest to
\* p / (1000 TicksPerMs)
FromTicks(p) ==
    LET q1 == DivM(<<0, 0, 0, 0, p>>, TicksPerMs)
        q2 == DivM(q1.quo, 1000)
    IN Dbl(FALSE, RoundM(q2.quo, q1.rem # 0 \/ q2.rem # 0))

\* ------------------------------------------------------- configuration
FPS == 30
SIZE == [w |-> 1920, h |-> 1080]

INTRO_DURATION == FromMs(1200)
INTERSTITIAL_DURATION == FromMs(700)
OUTRO_DURATION == FromMs(1500)
FADE_DURATION == FromMs(200)
max_clip == FromMs(5000)

None == "<None>"

BEAT_LABELS ==
    [l \in {"open", "code_visible", "navigate", "multicursor_start",
            "multicursor_active", "multicursor_typed", "split_view",
            "csv_view", "search", "outline", "workspace",
            "command_palette", "end"} |->
       CASE l = "multicursor_start" -> "multi-cursor"
         [] l = "split_view"        -> "split view"
         [] l = "csv_view"          -> "csv editor"
         [] l = "search"            -> "search"
         [] l = "outline"           -> "outline"
         [] l = "workspace"         -> "workspace"
         [] l = "command_palette"   -> "command palette"
         [] OTHER                   -> None]

SCENE_BEATS ==
    <<"open", "multicursor_start", "split_view", "csv_view", "search",
      "outline", "command_palette", "end">>

\* motion of a clip: scaleFrom 1.0, scaleTo 1.02, in hundredths
Motion == [scaleFrom |-> 100, scaleTo |-> 102]

\* --------------------------------------------------------------- inputs
MaxBeats == 3

\* labels of the beats fed in: scene boundaries without a caption ("open",
\* "end") and with one ("search"), and one label ("navigate") that is no
\* scene boundary
InputLabels == {"open", "search", "end", "navigate"}

\* beat timestamps, in ticks: 0 s, 0.0005 s and 4.0005 s (each half way
\* between two milliseconds), 10 s
Times == {0, 5, 40005, 100000}      \* ticks of 0.0001 s

\* raw footage durations, in ticks: 2.0005 s, 20 s
RawDurations == {20005, 200000}

\* A beat as the beats file gives it: a label and a timestamp in decimal,
\* in ticks.  The timestamp of a label that is no scene boundary is stored
\* in beat_map and never read (lines 119-121 read the labels of SCENE_BEATS
\* only), so such a beat comes at one time; a scene boundary comes at every
\* time.
Beats ==
    {b \in [label : InputLabels, t : Times] :
        \/ \E k \in 1..Len(SCENE_BEATS) : SCENE_BEATS[k] = b.label
        \/ b.t = 100000}

BeatLists == UNION {[1..k -> Beats] : k \in 0..MaxBeats}

\* ------------------------------------------------- steps of build_edl
\* beat_map is a Python dict: its keys are unique and keep the order of
\* their first insertion.  It is a sequence of [label, t] entries.
Has(m, label) == \E k \in 1..Len(m) : m[k].label = label

Get(m, label) == m[CHOOSE k \in 1..Len(m) : m[k].label = label].t

\* b["label"] and b["t"] of a beat of the file, b["t"] the double its
\* decimal is read as
Beat(b) == [label |-> b.label, t |-> FromTicks(b.t)]

\* beat_map[b["label"]] = b["t"]: a known key keeps its place and takes the
\* new value, a new key goes last
IndexBeat(m, b) ==
    IF Has(m, b.label)
    THEN [k \in 1..Len(m) |-> IF m[k].label = b.label THEN Beat(b) ELSE m[k]]
    ELSE Append(m, Beat(b))

RECURSIVE IndexFrom(_, _, _)
IndexFrom(m, bs, k) ==
    IF k > Len(bs) THEN m ELSE IndexFrom(IndexBeat(m, bs[k]), bs, k + 1)

BeatMapOf(bs) == IndexFrom(<<>>, bs, 1)

\* bug: the fade is placed one fade length after the boundary
FadeLate(at) ==
    [type |-> "fade", at |-> Round3(FAdd(at, FADE_DURATION)),
     dur |-> FADE_DURATION]

\* a fade at the cursor value at
Fade(at) == [type |-> "fade", at |-> Round3(at), dur |-> FADE_DURATION]

\* the intro card from the cursor pos to np = pos + INTRO_DURATION
IntroCard(pos, np) ==
    [kind |-> "card", text |-> "Token", subtext |-> "a minimal text editor",
     start |-> Round3(pos), end |-> Round3(np)]

\* the scene boundaries present in beat_map, in the order of SCENE_BEATS
RECURSIVE ScenesFrom(_, _)
ScenesFrom(m, k) ==
    IF k > Len(SCENE_BEATS) THEN <<>>
    ELSE IF Has(m, SCENE_BEATS[k])
         THEN <<[label |-> SCENE_BEATS[k], t |-> Get(m, SCENE_BEATS[k])]>>
              \o ScenesFrom(m, k + 1)
         ELSE ScenesFrom(m, k + 1)

\* bug: the boundaries are taken in the order the beats came in
SceneTimesInputOrder(m) ==
    SelectSeq(m, LAMBDA e : \E k \in 1..Len(SCENE_BEATS) : SCENE_BEATS[k] = e.label)

SceneTimes(m) == ScenesFrom(m, 1)

\* bug: the loop stops one pair early
InLoopShort(st, k) == k <= Len(st) - 2

\* range(len(scene_times) - 1), with i counted from 1
InLoop(st, k) == k <= Len(st) - 1

\* bug: a beat without a caption shows its own label
DisplayTextLabel(label) ==
    IF label \in DOMAIN BEAT_LABELS /\ BEAT_LABELS[label] # None
    THEN BEAT_LABELS[label] ELSE label

\* BEAT_LABELS.get(label)
DisplayText(label) ==
    IF label \in DOMAIN BEAT_LABELS THEN BEAT_LABELS[label] ELSE None

\* if display_text:
Truthy(text) == text # None /\ text # ""

\* an interstitial card from the cursor pos to
\* np = pos + INTERSTITIAL_DURATION
InterstitialCard(text, pos, np) ==
    [kind |-> "card", text |-> text,
     start |-> Round3(pos), end |-> Round3(np)]

\* if clip_duration > max_clip, clip_duration being clip_out - clip_in
Clamped(start_t, end_t, raw) ==
    FLess(max_clip, FSub(Min(end_t, raw), start_t))

\* bug: clip_out is not limited to max_clip
ClipOutNoMax(start_t, end_t, raw) == Min(end_t, raw)

\* bug: clip_out is not limited to the raw footage
ClipOutNoRaw(start_t, end_t, raw) ==
    IF FLess(max_clip, FSub(end_t, start_t))
    THEN FAdd(start_t, max_clip)
    ELSE end_t

\* clip_out after the clamps
ClipOut(start_t, end_t, raw) ==
    IF Clamped(start_t, end_t, raw)
    THEN FAdd(start_t, max_clip)
    ELSE Min(end_t, raw)

\* clip_duration after the clamps
ClipDuration(start_t, end_t, raw) ==
    IF Clamped(start_t, end_t, raw)
    THEN max_clip
    ELSE FSub(Min(end_t, raw), start_t)

\* bug: the clip is placed at its source time, not at the cursor
ClipSegOwnStart(label, clip_in, clip_out, pos, np) ==
    [kind |-> "clip", label |-> label,
     in |-> Round3(clip_in), out |-> Round3(clip_out),
     start |-> Round3(clip_in), end |-> Round3(FAdd(clip_in, FSub(np, pos))),
     motion |-> Motion]

\* a clip from the cursor pos to np = pos + clip_duration
ClipSeg(label, clip_in, clip_out, pos, np) ==
    [kind |-> "clip", label |-> label,
     in |-> Round3(clip_in), out |-> Round3(clip_out),
     start |-> Round3(pos), end |-> Round3(np),
     motion |-> Motion]

\* bug: the outro card is given the length of the intro card
OutroCardIntroLength(pos, np) ==
    [kind |-> "card", text |-> "token-editor.com", subtext |-> "",
     start |-> Round3(pos), end |-> Round3(FAdd(pos, INTRO_DURATION))]

\* the outro card from the cursor pos to np = pos + OUTRO_DURATION
OutroCard(pos, np) ==
    [kind |-> "card", text |-> "token-editor.com", subtext |-> "",
     start |-> Round3(pos), end |-> Round3(np)]

\* bug: the total is taken before the outro card
TotalDurationBeforeOutro(pos) == Round3(FSub(pos, OUTRO_DURATION))

TotalDuration(pos) == Round3(pos)

Edl(segs, trans, pos) ==
    [fps |-> FPS, size |-> SIZE, durationSec |-> TotalDuration(pos),
     inputs |-> [video |-> "recordings/raw.mp4"],
     segments |-> segs, transitions |-> trans]

\* The timeline under construction: segments, transitions, timeline_pos.
Tl(segs, trans, pos) == [segments |-> segs, transitions |-> trans, pos |-> pos]

\* the intro card, its fade, the cursor moved past it
IntroStep(tl) ==
    LET np == FAdd(tl.pos, INTRO_DURATION)
    IN Tl(Append(tl.segments, IntroCard(tl.pos, np)),
          Append(tl.transitions, Fade(np)), np)

\* an interstitial card, its fade, the cursor moved past it
CardStep(tl, text) ==
    LET np == FAdd(tl.pos, INTERSTITIAL_DURATION)
    IN Tl(Append(tl.segments, InterstitialCard(text, tl.pos, np)),
          Append(tl.transitions, Fade(np)), np)

\* a clip, its fade, the cursor moved past it
ClipStep(tl, label, start_t, end_t, raw) ==
    LET clip_in == start_t
        clip_out == ClipOut(start_t, end_t, raw)
        clip_duration == ClipDuration(start_t, end_t, raw)
        np == FAdd(tl.pos, clip_duration)
    IN Tl(Append(tl.segments, ClipSeg(label, clip_in, clip_out, tl.pos, np)),
          Append(tl.transitions, Fade(np)), np)

\* the outro card, the cursor moved past it; no fade
OutroStep(tl) ==
    LET np == FAdd(tl.pos, OUTRO_DURATION)
    IN Tl(Append(tl.segments, OutroCard(tl.pos, np)), tl.transitions, np)

\* for i in range(len(scene_times) - 1): card if any, then clip
RECURSIVE LoopFrom(_, _, _, _)
LoopFrom(tl, st, k, raw) ==
    IF ~InLoop(st, k) THEN tl
    ELSE LET text == DisplayText(st[k].label)
             carded == IF Truthy(text) THEN CardStep(tl, text) ELSE tl
         IN LoopFrom(ClipStep(carded, st[k].label, st[k].t, st[k + 1].t, raw),
                     st, k + 1, raw)

\* the document made of a finished timeline
EdlOf(tl) == Edl(tl.segments, tl.transitions, tl.pos)

\* build_edl as a function of its arguments: the beats with their
\* timestamps in ticks, the raw footage duration in ticks
build_edl(bs, raw) ==
    EdlOf(OutroStep(LoopFrom(IntroStep(Tl(<<>>, <<>>, Zero)),
                             SceneTimes(BeatMapOf(bs)), 1, FromTicks(raw))))

NoEdl == [fps |-> 0]

\* ------------------------------------------------------ state machine
\* build_edl run step by step on the inputs chosen by Init.
Init ==
    /\ beats \in BeatLists
    /\ raw_duration \in RawDurations
    /\ pc = "index"
    /\ beat_map = <<>>
    /\ segments = <<>>
    /\ transitions = <<>>
    /\ timeline_pos = Zero
    /\ scene_times = <<>>
    /\ i = 1
    /\ edl = NoEdl

Cur == Tl(segments, transitions, timeline_pos)

Becomes(tl) ==
    /\ segments' = tl.segments
    /\ transitions' = tl.transitions
    /\ timeline_pos' = tl.pos

\* for b in beats: beat_map[b["label"]] = b["t"]
Index ==
    /\ pc = "index"
    /\ beat_map' = BeatMapOf(beats)
    /\ pc' = "intro"
    /\ UNCHANGED <<beats, raw_duration, segments, transitions, timeline_pos,
                   scene_times, i, edl>>

Intro ==
    /\ pc = "intro"
    /\ Becomes(IntroStep(Cur))
    /\ pc' = "scenes"
    /\ UNCHANGED <<beats, raw_duration, beat_map, scene_times, i, edl>>

\* scene_times: the configured boundaries found in beat_map
Scenes ==
    /\ pc = "scenes"
    /\ scene_times' = SceneTimes(beat_map)
    /\ i' = 1
    /\ pc' = "loop"
    /\ UNCHANGED <<beats, raw_duration, beat_map, segments, transitions,
                   timeline_pos, edl>>

\* the card part of a pass of the loop whose beat has a display text
Interstitial ==
    /\ pc = "loop"
    /\ InLoop(scene_times, i)
    /\ Truthy(DisplayText(scene_times[i].label))
    /\ Becomes(CardStep(Cur, DisplayText(scene_times[i].label)))
    /\ pc' = "clip"
    /\ UNCHANGED <<beats, raw_duration, beat_map, scene_times, i, edl>>

\* the clip part of a pass, reached after the card, or at once when the beat
\* has no display text
Clip ==
    /\ \/ pc = "clip"
       \/ /\ pc = "loop"
          /\ InLoop(scene_times, i)
          /\ ~Truthy(DisplayText(scene_times[i].label))
    /\ Becomes(ClipStep(Cur, scene_times[i].label, scene_times[i].t,
                        scene_times[i + 1].t, FromTicks(raw_duration)))
    /\ i' = i + 1
    /\ pc' = "loop"
    /\ UNCHANGED <<beats, raw_duration, beat_map, scene_times, edl>>

\* after the loop: the outro card, total_duration and the document returned
Outro ==
    /\ pc = "loop"
    /\ ~InLoop(scene_times, i)
    /\ LET tl == OutroStep(Cur)
       IN Becomes(tl) /\ edl' = EdlOf(tl)
    /\ pc' = "done"
    /\ UNCHANGED <<beats, raw_duration, beat_map, scene_times, i>>

Next == Index \/ Intro \/ Scenes \/ Interstitial \/ Clip \/ Outro

Spec == Init /\ [][Next]_vars

\* ------------------------------------------------------------- claims
\* Segment times of the EDL are in milliseconds, as round(x, 3) wrote them;
\* the beats and the raw footage duration of the input are in ticks.
Done == pc = "done"

Segs == edl.segments

Trans == edl.transitions

ClipIdx == {j \in 1..Len(Segs) : Segs[j].kind = "clip"}

\* the configured scene boundaries that occur in the input beats
SceneLabels == {SCENE_BEATS[k] : k \in 1..Len(SCENE_BEATS)}

IsPresent(l) == \E k \in 1..Len(beats) : beats[k].label = l

Present == {l \in SceneLabels : IsPresent(l)}

\* the present boundaries in configured order
PresentSeq == SelectSeq(SCENE_BEATS, IsPresent)

ScenePos(l) == CHOOSE k \in 1..Len(SCENE_BEATS) : SCENE_BEATS[k] = l

\* the timestamp, as a double, of the last input beat labelled l
LastT(l) ==
    FromTicks(beats[CHOOSE k \in 1..Len(beats) :
                /\ beats[k].label = l
                /\ \A k2 \in (k + 1)..Len(beats) : beats[k2].label # l].t)

\* the next present boundary after l in the configured order
NextPresent(l) ==
    LET ps == PresentSeq
    IN ps[(CHOOSE m \in 1..Len(ps) : ps[m] = l) + 1]

\* the boundaries a clip of the result starts at: all present ones but the last
ClipLabels ==
    LET ps == PresentSeq
    IN {ps[m] : m \in 1..(Len(ps) - 1)}

\* the raw footage duration, as a double
Raw == FromTicks(raw_duration)

TA(j) == LastT(Segs[j].label)

TB(j) == LastT(NextPresent(Segs[j].label))

\* min(tB, rawFootageDuration) of the clip at j
NaturalOut(j) == Min(TB(j), Raw)

WholeMs(p) == p % TicksPerMs = 0

\* every beat timestamp and the raw footage duration are whole milliseconds
AllWhole ==
    /\ WholeMs(raw_duration)
    /\ \A k \in 1..Len(beats) : WholeMs(beats[k].t)

Abs(x) == IF x < 0 THEN -x ELSE x

HasCaption(l) == l \in DOMAIN BEAT_LABELS /\ BEAT_LABELS[l] \notin {None, ""}

\* a clip of a sound input: its beat tA lies at or after 0 and before
\* min(tB, raw), so the clip has a positive length
SoundClip(tA, natOut) == FLeq(Zero, tA) /\ FLess(tA, natOut)

AllSound == \A j \in ClipIdx : SoundClip(TA(j), NaturalOut(j))

\* the natural length min(tB, raw) - tA is above max_clip
Long(tA, natOut) == FLess(max_clip, FSub(natOut, tA))

\* C1: the segments of the returned EDL are contiguous: the first starts at
\* 0 and every other starts where the one before it ends.
C1_Contiguous ==
    Done => /\ Segs[1].start = 0
            /\ \A j \in 1..(Len(Segs) - 1) : Segs[j + 1].start = Segs[j].end

\* intro, clip, interstitial card, clip, outro, with a clip whose timeline
\* span and source span differ
C1_Witness ==
    /\ Done
    /\ Len(Segs) >= 5
    /\ \E j \in ClipIdx : Segs[j - 1].kind = "card" /\ j > 2
    /\ \E j \in ClipIdx : Segs[j].end - Segs[j].start # Segs[j].out - Segs[j].in

\* C2: no emitted segment has a negative length (end >= start).
C2_NoNegativeSegment ==
    Done => \A j \in 1..Len(Segs) : Segs[j].end >= Segs[j].start

\* C3: durationSec of the returned EDL is the end of its last segment.
C3_TotalIsLastEnd ==
    Done => edl.durationSec = Segs[Len(Segs)].end

\* a result with clips, whose total is more than the two cards
C3_Witness ==
    /\ Done
    /\ ClipIdx # {}
    /\ edl.durationSec > Round3(INTRO_DURATION) + Round3(OUTRO_DURATION)

\* C4: the k-th transition is a fade at the end of the k-th segment, and
\* there is one for every segment but the last (the outro card).
C4_TransitionsAnchored ==
    Done => /\ Len(Trans) = Len(Segs) - 1
            /\ \A k \in 1..Len(Trans) :
                   Trans[k].type = "fade" /\ Trans[k].at = Segs[k].end

\* a result with fades after the intro, a card and two clips
C4_Witness ==
    /\ Done
    /\ Len(Trans) >= 4
    /\ Cardinality(ClipIdx) >= 2

\* the clip s, cut from tA to natOut = min(tB, raw), as C5 states it
SpanAsStated(s, tA, natOut) ==
    /\ s.end - s.start = s.out - s.in
    /\ s.end - s.start <= Round3(max_clip)
    /\ Long(tA, natOut) =>
           /\ s.end - s.start = Round3(max_clip)
           /\ s.out = s.in + Round3(max_clip)
    /\ ~Long(tA, natOut) => FromMs(s.out) = natOut /\ FromMs(s.in) = tA

\* C5, as stated: for every clip the timeline span equals the source span
\* and is at most max_clip; a natural length above max_clip gives a span of
\* exactly max_clip and out = in + max_clip; otherwise out = min(tB, raw) and
\* in = tA.  (Stated of the inputs whose clips all have a positive length,
\* so that what refutes it is no clip of negative length.)
C5_SpanEqualsSource ==
    (Done /\ AllSound) =>
        \A j \in ClipIdx : SpanAsStated(Segs[j], TA(j), NaturalOut(j))

\* the clip s, cut from tA to natOut = min(tB, raw), with the rounding:
\* d is the length of the clip before it
SpanRounded(s, tA, natOut) ==
    LET d == IF Long(tA, natOut) THEN max_clip ELSE FSub(natOut, tA)
    IN /\ s.in = Round3(tA)
       /\ s.out = Round3(IF Long(tA, natOut) THEN FAdd(tA, max_clip) ELSE natOut)
       /\ Abs((s.end - s.start) - Round3(d)) <= 1
       /\ Abs((s.out - s.in) - Round3(d)) <= 1

\* C5, amended: in is tA rounded to the millisecond; out is min(tB, raw)
\* rounded, or tA + max_clip rounded when the natural length is above
\* max_clip; with d the natural length or max_clip, whichever is less, the
\* timeline span and the source span are each within 1 ms of d rounded.
\* When every beat timestamp and the raw footage duration are whole
\* milliseconds the claim holds as stated.
C5_SpanWithinRounding ==
    Done => \A j \in ClipIdx :
        /\ SpanRounded(Segs[j], TA(j), NaturalOut(j))
        /\ AllWhole => SpanAsStated(Segs[j], TA(j), NaturalOut(j))

\* a clip cut to max_clip whose source span is not max_clip, and a clip
\* whose timeline span is not its source span
C5_Witness ==
    /\ Done
    /\ AllSound
    /\ \E j \in ClipIdx :
           /\ Long(TA(j), NaturalOut(j))
           /\ Segs[j].out - Segs[j].in # Round3(max_clip)
    /\ \E j \in ClipIdx :
           Segs[j].end - Segs[j].start # Segs[j].out - Segs[j].in

Permute(bs, p) == [k \in 1..Len(bs) |-> bs[p[k]]]

\* the labels in one fixed order (that of the keys of BEAT_LABELS)
LabelOrder ==
    <<"open", "code_visible", "navigate", "multicursor_start",
      "multicursor_active", "multicursor_typed", "split_view", "csv_view",
      "search", "outline", "workspace", "command_palette", "end">>

Rank(l) == CHOOSE k \in 1..Len(LabelOrder) : LabelOrder[k] = l

\* beats with unique labels, listed in the fixed order of the labels
InLabelOrder(bs) ==
    \A a, b \in 1..Len(bs) : a < b => Rank(bs[a].label) < Rank(bs[b].label)

\* C6: the clips come in the order of SCENE_BEATS, and a beat list with
\* unique labels gives the same EDL in whatever order its beats are.  Every
\* beat list with unique labels is a permutation of the one list that holds
\* the same beats in label order, so the EDL of a run on such a list is
\* compared with what build_edl gives for each of its permutations, the
\* list itself among them.
C6_ConfiguredOrder ==
    Done => /\ \A a, b \in ClipIdx :
                   a < b => ScenePos(Segs[a].label) < ScenePos(Segs[b].label)
            /\ InLabelOrder(beats) =>
                   \A p \in Permutations(1..Len(beats)) :
                       build_edl(Permute(beats, p), raw_duration) = edl

\* three beats with unique labels and decreasing timestamps, two clips
C6_Witness ==
    /\ Done
    /\ Len(beats) = 3
    /\ InLabelOrder(beats)
    /\ Cardinality(ClipIdx) = 2
    /\ beats[1].t > beats[2].t
    /\ beats[2].t > beats[3].t

\* C7: with fewer than two configured scene boundaries among the beats the
\* result is the intro card [0, intro) and the outro card
\* [intro, intro + outro), one fade at the end of the intro, and a total of
\* intro + outro.
C7_CardsOnly ==
    (Done /\ Cardinality(Present) < 2) =>
        /\ Len(Segs) = 2
        /\ Segs[1].kind = "card" /\ Segs[1].text = "Token"
        /\ Segs[1].start = 0 /\ Segs[1].end = Round3(INTRO_DURATION)
        /\ Segs[2].kind = "card" /\ Segs[2].text = "token-editor.com"
        /\ Segs[2].start = Round3(INTRO_DURATION)
        /\ Segs[2].end = Round3(INTRO_DURATION) + Round3(OUTRO_DURATION)
        /\ Trans = <<[type |-> "fade", at |-> Round3(INTRO_DURATION),
                      dur |-> FADE_DURATION]>>
        /\ edl.durationSec = Round3(INTRO_DURATION) + Round3(OUTRO_DURATION)

\* beats that hold one scene boundary and other labels
C7_Witness ==
    /\ Done
    /\ Cardinality(Present) = 1
    /\ \E k \in 1..Len(beats) : beats[k].label \notin SceneLabels
    /\ Len(Segs) = 2

\* C8, as stated: out of every clip is at most the raw footage duration.
\* (Stated of the inputs whose clips all have a positive length, as for C5.)
C8_OutWithinRaw ==
    (Done /\ AllSound) => \A j \in ClipIdx : FLeq(FromMs(Segs[j].out), Raw)

\* C8, amended: out of every clip is at most the raw footage duration
\* rounded to the millisecond, and at most the raw footage duration itself
\* when that is a whole number of milliseconds.
C8_OutWithinRoundedRaw ==
    Done => \A j \in ClipIdx :
        /\ Segs[j].out <= Round3(Raw)
        /\ WholeMs(raw_duration) => FLeq(FromMs(Segs[j].out), Raw)

\* a clip whose end beat lies after the end of the raw footage, and whose
\* out is over the raw footage duration
C8_Witness ==
    /\ Done
    /\ \E j \in ClipIdx :
           /\ FLess(Raw, TB(j))
           /\ FLess(TA(j), Raw)
           /\ Segs[j].out = Round3(Raw)
           /\ FLess(Raw, FromMs(Segs[j].out))

\* what C9 says of the clips and cards, the span of an interstitial card
\* being INTERSTITIAL_DURATION to within slack
CardsForCaptions(slack) ==
    /\ \A j \in ClipIdx :
           IF HasCaption(Segs[j].label)
           THEN /\ j - 1 > 1
                /\ Segs[j - 1].kind = "card"
                /\ Segs[j - 1].text = BEAT_LABELS[Segs[j].label]
                /\ Abs(Segs[j - 1].end - Segs[j - 1].start
                       - Round3(INTERSTITIAL_DURATION)) <= slack
           ELSE j - 1 = 1 \/ Segs[j - 1].kind = "clip"
    /\ \A j \in 2..(Len(Segs) - 1) :
           Segs[j].kind = "card" =>
               /\ Segs[j + 1].kind = "clip"
               /\ HasCaption(Segs[j + 1].label)

\* C9, as stated: a clip whose label has a caption comes right after an
\* interstitial card of INTERSTITIAL_DURATION with that caption; a clip
\* whose label has none comes right after the intro card or a clip; and
\* every card between intro and outro is such an interstitial card.
\* (Stated of the inputs whose clips all have a positive length.)
C9_CardsOfExactLength == (Done /\ AllSound) => CardsForCaptions(0)

\* C9, amended: as stated, the written span of an interstitial card being
\* INTERSTITIAL_DURATION to within 1 ms, and exactly that when every beat
\* timestamp and the raw footage duration are whole milliseconds.
C9_CardsForCaptions ==
    Done => /\ CardsForCaptions(1)
            /\ AllWhole => CardsForCaptions(0)

\* a clip with a caption and a clip without one, the card of the first
\* with a span that is not INTERSTITIAL_DURATION
C9_Witness ==
    /\ Done
    /\ AllSound
    /\ \E j \in ClipIdx :
           /\ HasCaption(Segs[j].label)
           /\ Segs[j - 1].end - Segs[j - 1].start
                  # Round3(INTERSTITIAL_DURATION)
    /\ \E j \in ClipIdx : ~HasCaption(Segs[j].label)

\* the clip s runs from tA to natOut = min(tB, raw), cut to max_clip
RunsTo(s, tA, natOut) ==
    /\ s.in = Round3(tA)
    /\ s.out = Round3(IF Long(tA, natOut) THEN FAdd(tA, max_clip) ELSE natOut)

\* C10: with k configured boundaries present there are max(0, k - 1) clips,
\* one for each present boundary but the last in configured order, and each
\* runs from its boundary's timestamp to that of the next present boundary
\* (cut to the raw footage and to max_clip).
C10_MissingSkipped ==
    Done =>
        /\ Cardinality(ClipIdx) =
               (IF Cardinality(Present) = 0 THEN 0 ELSE Cardinality(Present) - 1)
        /\ {Segs[j].label : j \in ClipIdx} = ClipLabels
        /\ \A j \in ClipIdx : RunsTo(Segs[j], TA(j), NaturalOut(j))

\* three boundaries present with configured boundaries missing between them
C10_Witness ==
    /\ Done
    /\ Present = {"open", "search", "end"}
    /\ Cardinality(ClipIdx) = 2

====
